---------------------------- MODULE Spec2Model ----------------------------
(***************************************************************************)
(* Model of the bioinfo-scripts repository: four independent batch scripts *)
(*   make_pyclone_input.py   (purity/ploidy scan, MAF x CNA segment join)  *)
(*   prep_mutation_files.py  (cross-sample reconciliation of two MAFs)     *)
(*   merge_pyclone_inputs.py (concatenation of two pyclone tables)         *)
(*   eps2tiff.py             (one external conversion per .eps file)       *)
(* Each script is a sequential program; its position is a pc variable and  *)
(* each loop iteration is one step.  Text is a sequence of tokens, so that *)
(* formatting (str, f-strings, '+') and parsing (split, int, replace,      *)
(* rstrip, endswith) are computed and not assumed to be inverse.           *)
(***************************************************************************)
EXTENDS Integers, Sequences, FiniteSets, TLC

VARIABLES
    \* make_pyclone_input.get_purity_ploidy
    vcf, fpos, line, purity, ploidy, ppc,
    \* make_pyclone_input.merge_alterations
    cnaFile, mafFile, cnas, cnInfo, muts, idx, pos, segment, output,
    numExcludedMuts, mpc,
    \* prep_mutation_files
    pMafFile, mMafFile, pBam, mBam, primaryMaf, metMaf, pSpecific, mSpecific,
    mutdf, absentMuts, todo, bam, records, skipCounter, N, rpc,
    \* merge_pyclone_inputs
    primaryTsv, metTsv, pdf, mdf, df, outTsv, cpc,
    \* eps2tiff
    listing, files, done, cmds, epc

varsPP == <<vcf, fpos, line, purity, ploidy, ppc>>
varsMerge == <<cnaFile, mafFile, cnas, cnInfo, muts, idx, pos, segment,
               output, numExcludedMuts, mpc>>
varsPrep == <<pMafFile, mMafFile, pBam, mBam, primaryMaf, metMaf, pSpecific,
              mSpecific, mutdf, absentMuts, todo, bam, records, skipCounter, N, rpc>>
varsCat == <<primaryTsv, metTsv, pdf, mdf, df, outTsv, cpc>>
varsEps == <<listing, files, done, cmds, epc>>
vars == <<varsPP, varsMerge, varsPrep, varsCat, varsEps>>

----------------------------------------------------------------------------
(* Bounds of the model: lengths of the input tables and files.             *)
MaxSegs == 2
MaxMuts == 2
MaxLines == 4
MaxRows == 2
MaxTsv == 2
MaxFiles == 2

----------------------------------------------------------------------------
(* Python values                                                           *)

\* None, for a value that is otherwise a non-empty tuple
None == <<>>
\* An optional string: None is <<>>, the string s is <<s>> ('' is <<<<>>>>)
Some(s) == <<s>>

RECURSIVE SeqsUpTo(_, _)
\* all sequences over S of length at most n
SeqsUpTo(S, n) ==
    IF n = 0 THEN {<<>>}
    ELSE LET shorter == SeqsUpTo(S, n - 1)
         IN shorter \cup {Append(s, x) : s \in {t \in shorter : Len(t) = n - 1}, x \in S}

Digits == <<"0", "1", "2", "3", "4", "5", "6", "7", "8", "9">>

RECURSIVE IntToStr(_)
\* str(n), astype(str) and f"{n}" of a non-negative integer
IntToStr(n) ==
    IF n < 10 THEN <<Digits[n + 1]>>
    ELSE Append(IntToStr(n \div 10), Digits[(n % 10) + 1])

DigitValue(c) == CHOOSE d \in 0..9 : Digits[d + 1] = c

RECURSIVE StrToInt(_)
\* int(s) of a string of decimal digits
StrToInt(s) ==
    IF Len(s) = 0 THEN 0
    ELSE 10 * StrToInt(SubSeq(s, 1, Len(s) - 1)) + DigitValue(s[Len(s)])

RECURSIVE SplitFrom(_, _, _, _)
SplitFrom(s, sep, i, cur) ==
    IF i > Len(s) THEN <<cur>>
    ELSE IF s[i] = sep THEN <<cur>> \o SplitFrom(s, sep, i + 1, <<>>)
    ELSE SplitFrom(s, sep, i + 1, Append(cur, s[i]))

\* s.split(sep)
Split(s, sep) == SplitFrom(s, sep, 1, <<>>)

\* tok in s
Contains(s, tok) == \E i \in 1..Len(s) : s[i] = tok

RECURSIVE RStrip(_)
\* s.rstrip()
RStrip(s) ==
    IF Len(s) > 0 /\ s[Len(s)] \in {"\n", " "}
    THEN RStrip(SubSeq(s, 1, Len(s) - 1))
    ELSE s


RECURSIVE ReplaceSub(_, _)
\* s.replace(sub, ''), every occurrence of the token string sub, left to right
ReplaceSub(s, sub) ==
    IF Len(s) < Len(sub) THEN s
    ELSE IF SubSeq(s, 1, Len(sub)) = sub
         THEN ReplaceSub(SubSeq(s, Len(sub) + 1, Len(s)), sub)
         ELSE <<s[1]>> \o ReplaceSub(Tail(s), sub)

----------------------------------------------------------------------------
(* make_pyclone_input.py : get_purity_ploidy                                *)

\* The lines a FACETS VCF is made of here: one header key per line.
VcfLines ==
    { <<"##purity", "=", "0.65", "\n">>,
      <<"##purity", "=", "0.7", "\n">>,
      <<"##purity", "=", "\n">>,
      <<"##ploidy", "=", "2.1", "\n">>,
      <<"##fileformat", "=", "VCFv4.2", "\n">>,
      <<"#CHROM", "\n">> }

\* f.readline(): the next line, or '' at end of file (and ever after)
ReadLine(f, p) == IF p < Len(f) THEN f[p + 1] ELSE <<>>
Advance(f, p) == IF p < Len(f) THEN p + 1 ELSE p

LoopCondBoth(p, q) == p = None /\ q = None
\* while purity is None or ploidy is None
LoopCond(p, q) == p = None \/ q = None

InitPP ==
    /\ vcf \in SeqsUpTo(VcfLines, MaxLines)
    /\ fpos = 0
    /\ line = <<>>
    /\ purity = None
    /\ ploidy = None
    /\ ppc = "open"
    \* the other scripts do not run
    /\ cnaFile = <<>> /\ mafFile = [comment |-> <<>>, rows |-> <<>>]
    /\ cnas = <<>> /\ cnInfo = <<>> /\ muts = <<>> /\ idx = 0 /\ pos = <<>>
    /\ segment = None /\ output = <<>> /\ numExcludedMuts = 0 /\ mpc = "idle"
    /\ pMafFile = [comment |-> <<>>, rows |-> <<>>]
    /\ mMafFile = [comment |-> <<>>, rows |-> <<>>]
    /\ pBam = <<>> /\ mBam = <<>>
    /\ primaryMaf = <<>> /\ metMaf = <<>> /\ pSpecific = {} /\ mSpecific = {}
    /\ mutdf = <<>> /\ absentMuts = {} /\ todo = {} /\ bam = pBam
    /\ records = <<>> /\ skipCounter = 0 /\ N = 0 /\ rpc = "idle"
    /\ primaryTsv = <<>> /\ metTsv = <<>> /\ pdf = <<>> /\ mdf = <<>>
    /\ df = <<>> /\ outTsv = <<>> /\ cpc = "idle"
    /\ listing = <<>> /\ files = <<>> /\ done = 0 /\ cmds = <<>> /\ epc = "idle"

\* gzip.open, the first readline, purity = ploidy = None
PPOpen ==
    /\ ppc = "open"
    /\ line' = ReadLine(vcf, fpos)
    /\ fpos' = Advance(vcf, fpos)
    /\ purity' = None
    /\ ploidy' = None
    /\ ppc' = "loop"
    /\ UNCHANGED vcf

\* one iteration of the while loop
PPLoop ==
    /\ ppc = "loop"
    /\ LoopCond(purity, ploidy)
    /\ IF Contains(line, "##purity")
       THEN /\ purity' = Some(ReplaceSub(RStrip(line), <<"##purity", "=">>))
            /\ UNCHANGED ploidy
       ELSE IF Contains(line, "##ploidy")
       THEN /\ ploidy' = Some(ReplaceSub(RStrip(line), <<"##ploidy", "=">>))
            /\ UNCHANGED purity
       ELSE UNCHANGED <<purity, ploidy>>
    /\ line' = ReadLine(vcf, fpos)
    /\ fpos' = Advance(vcf, fpos)
    /\ UNCHANGED <<vcf, ppc>>

\* the loop condition fails: return purity, ploidy
PPReturn ==
    /\ ppc = "loop"
    /\ ~LoopCond(purity, ploidy)
    /\ ppc' = "done"
    /\ UNCHANGED <<vcf, fpos, line, purity, ploidy>>

----------------------------------------------------------------------------
(* make_pyclone_input.py : build_cn_lookup, query_cn_segment,               *)
(* merge_alterations                                                        *)

patientId == <<"P1">>
sampleId == <<"primary">>

ChromsCN == {<<"chr1">>, <<"chrY">>}
\* start, end, raw lcn_em text, tcn_em and svtype of a segment row
SegShapes ==
    { <<9, 10, <<".">>, 2, "LOH">>,
      <<9, 10, <<"1">>, 4, "DUP">>,
      <<10, 11, <<"1">>, 4, "DUP">> }

\* rows of the FACETS CSV: chrom,start,end,svtype,major_cn,lcn_em,tcn_em
CnaRows ==
    { [chrom |-> c, start |-> sh[1], end |-> sh[2], svtype |-> sh[5],
       major_cn |-> 0, lcn_em |-> sh[3], tcn_em |-> sh[4]] :
      c \in ChromsCN, sh \in SegShapes }

MutIntervals == {<<9, 9>>, <<10, 10>>, <<10, 11>>}

\* rows of the MAF
MafRows ==
    { [Chromosome |-> c, Start_Position |-> iv[1], End_Position |-> iv[2],
       Reference_Allele |-> IF iv[1] = iv[2] THEN <<"A">> ELSE <<"A", "T">>,
       Tumor_Seq_Allele2 |-> IF iv[1] = iv[2] THEN <<"G">> ELSE <<"-">>,
       t_ref_count |-> 20 + iv[1], t_alt_count |-> 3] :
      c \in ChromsCN, iv \in MutIntervals }

\* a MAF file: an optional first line starting with '#', then the table
MafComments == {<<>>, <<"#", "version 2.4">>}

\* load_maf: skip the first line when it starts with '#'
load_maf(fp) ==
    IF Len(fp.comment) > 0 /\ fp.comment[1] = "#"
    THEN fp.rows    \* read_csv(skiprows = 1)
    ELSE fp.rows    \* read_csv()

\* cnas['lcn_em'].replace(['.'], '0')
ReplaceDot(v) == IF v = <<".">> THEN <<"0">> ELSE v

MajorCNSum(tcn, lcn) == tcn + lcn
\* cnas['major_cn'] = cnas['tcn_em'] - cnas['lcn_em']
MajorCN(tcn, lcn) == tcn - lcn

\* the three column assignments on cnas
PrepareCnas(tbl) ==
    [i \in 1..Len(tbl) |->
        LET lcn == StrToInt(ReplaceDot(tbl[i].lcn_em))
        IN [tbl[i] EXCEPT !.lcn_em = lcn, !.major_cn = MajorCN(tbl[i].tcn_em, lcn)]]

RECURSIVE build_cn_lookup_rows(_, _, _)
build_cn_lookup_rows(tbl, i, out) ==
    IF i > Len(tbl) THEN out
    ELSE LET row == tbl[i]
             normalCN == IF row.chrom = <<"chrY">> THEN 1 ELSE 2
             segmentInfo == <<row.start, row.end, row.svtype, row.major_cn,
                              row.lcn_em, normalCN>>
         IN build_cn_lookup_rows(tbl, i + 1,
                IF row.chrom \in DOMAIN out
                THEN [out EXCEPT ![row.chrom] = Append(@, segmentInfo)]
                ELSE out @@ (row.chrom :> <<segmentInfo>>))

\* dict chrom -> list of segmentInfo, in row order
build_cn_lookup(tbl) == build_cn_lookup_rows(tbl, 1, <<>>)

isInSegmentStrict(start, end, segmentInfo) ==
    start > segmentInfo[1] /\ end < segmentInfo[2]
isInSegment(start, end, segmentInfo) ==
    start >= segmentInfo[1] /\ end <= segmentInfo[2]

RECURSIVE FirstMatch(_, _, _, _)
\* for segment in lookup[chrom]: if isInSegment(...): return segment
FirstMatch(start, end, segs, i) ==
    IF i > Len(segs) THEN None
    ELSE IF isInSegment(start, end, segs[i]) THEN segs[i]
    ELSE FirstMatch(start, end, segs, i + 1)

query_cn_segment(position, lookup) ==
    LET parts == Split(position, ":")
        chrom == parts[1]
        start == StrToInt(parts[2])
        end == StrToInt(parts[3])
    IN IF chrom \notin DOMAIN lookup THEN None
       ELSE FirstMatch(start, end, lookup[chrom], 1)

\* muts['mid'] = patientId + ':' + Chromosome + ':' + Start + ':' + End + Ref + '>' + Alt
MakeMid(row) ==
    patientId \o <<":">> \o row.Chromosome \o <<":">>
    \o IntToStr(row.Start_Position) \o <<":">> \o IntToStr(row.End_Position)
    \o row.Reference_Allele \o <<">">> \o row.Tumor_Seq_Allele2

\* f"{row['Chromosome']}:{row['Start_Position']}:{row['End_Position']}"
MakePos(row) ==
    row.Chromosome \o <<":">> \o IntToStr(row.Start_Position)
    \o <<":">> \o IntToStr(row.End_Position)

CountExcludedSame(n) == n
\* numExcludedMuts += 1
CountExcluded(n) == n + 1

InitMerge ==
    /\ cnaFile \in SeqsUpTo(CnaRows, MaxSegs)
    /\ mafFile \in [comment : MafComments, rows : SeqsUpTo(MafRows, MaxMuts)]
    /\ cnas = <<>>
    /\ cnInfo = <<>>
    /\ muts = <<>>
    /\ idx = 0
    /\ pos = <<>>
    /\ segment = None
    /\ output = <<>>
    /\ numExcludedMuts = 0
    /\ mpc = "load"
    \* the other scripts do not run
    /\ vcf = <<>> /\ fpos = 0 /\ line = <<>> /\ ppc = "done"
    /\ purity = Some(<<"0.65">>) /\ ploidy = Some(<<"2.1">>)
    /\ pMafFile = [comment |-> <<>>, rows |-> <<>>]
    /\ mMafFile = [comment |-> <<>>, rows |-> <<>>]
    /\ pBam = <<>> /\ mBam = <<>>
    /\ primaryMaf = <<>> /\ metMaf = <<>> /\ pSpecific = {} /\ mSpecific = {}
    /\ mutdf = <<>> /\ absentMuts = {} /\ todo = {} /\ bam = pBam
    /\ records = <<>> /\ skipCounter = 0 /\ N = 0 /\ rpc = "idle"
    /\ primaryTsv = <<>> /\ metTsv = <<>> /\ pdf = <<>> /\ mdf = <<>>
    /\ df = <<>> /\ outTsv = <<>> /\ cpc = "idle"
    /\ listing = <<>> /\ files = <<>> /\ done = 0 /\ cmds = <<>> /\ epc = "idle"

\* merge_alterations up to the loop: load both tables, derive lcn_em and
\* major_cn, build the lookup, add the mid column
MLoad ==
    /\ mpc = "load"
    /\ cnas' = PrepareCnas(cnaFile)
    /\ cnInfo' = build_cn_lookup(cnas')
    /\ muts' = [i \in 1..Len(load_maf(mafFile)) |->
                   [row |-> load_maf(mafFile)[i], mid |-> MakeMid(load_maf(mafFile)[i])]]
    /\ numExcludedMuts' = 0
    /\ output' = <<>>
    /\ idx' = 0
    /\ mpc' = "loop"
    /\ UNCHANGED <<cnaFile, mafFile, pos, segment>>

\* one iteration of "for index, row in muts.iterrows()"
MStep ==
    /\ mpc = "loop"
    /\ idx < Len(muts)
    /\ LET row == muts[idx + 1].row
           mid == muts[idx + 1].mid
           p == MakePos(row)
           seg == query_cn_segment(p, cnInfo)
       IN /\ pos' = p
          /\ segment' = seg
          /\ IF seg = None
             THEN /\ numExcludedMuts' = CountExcluded(numExcludedMuts)
                  /\ UNCHANGED output
             ELSE /\ output' = Append(output,
                        <<mid, sampleId, row.t_ref_count, row.t_alt_count,
                          seg[4], seg[5], seg[6], purity[1]>>)
                  /\ UNCHANGED numExcludedMuts
    /\ idx' = idx + 1
    /\ UNCHANGED <<cnaFile, mafFile, cnas, cnInfo, muts, mpc>>

\* the loop is over: build the DataFrame and return it
MReturn ==
    /\ mpc = "loop"
    /\ idx = Len(muts)
    /\ mpc' = "done"
    /\ UNCHANGED <<cnaFile, mafFile, cnas, cnInfo, muts, idx, pos, segment,
                   output, numExcludedMuts>>

----------------------------------------------------------------------------
(* prep_mutation_files.py                                                   *)

\* A cell of Start_Position / End_Position: read_csv gives an integer, the
\* synthesized rows hold the text cut out of the mutation id.
IntV(n) == <<"int", n>>
StrV(s) == <<"str", s>>
\* .astype(str)
AsTypeStr(v) == IF v[1] = "int" THEN IntToStr(v[2]) ELSE v[2]
\* the value of a column a row does not have
NaN == <<"nan">>

PrepChrom == <<"chr1">>
PrepIntervals == {<<9, 9>>, <<10, 10>>, <<9, 10>>}
BamPositions == {9, 10}

\* rows of a Mutect2 MAF: SNVs and a two-base deletion
PrepRows ==
    { [Chromosome |-> PrepChrom, Start_Position |-> iv[1], End_Position |-> iv[2],
       Reference_Allele |-> IF iv[1] = iv[2] THEN <<"A">> ELSE <<"A", "T">>,
       Tumor_Seq_Allele2 |-> IF iv[1] = iv[2] THEN <<"G">> ELSE <<"-">>,
       t_ref_count |-> 20 + iv[1], t_alt_count |-> 3] :
      iv \in PrepIntervals }

\* an alignment file: the number of reads over each position (0: none);
\* a covered position 9 has 7 reads, a covered position 10 has 8
Bams == { b \in [BamPositions -> {0, 7, 8}] : \A q \in BamPositions : b[q] \in {0, q - 2} }

\* pst.stat_coverage(bam, chrom, start, end, truncate = True, one_based = True):
\* one record per position of the 1-based window start .. end - 1 that some
\* read covers, in position order (a pileup has no column where no read is)
RECURSIVE stat_coverage(_, _, _, _)
stat_coverage(b, chrom, start, end) ==
    IF start >= end THEN <<>>
    ELSE (IF start \in DOMAIN b /\ b[start] > 0
          THEN <<[chrom |-> chrom, pos |-> start, reads_all |-> b[start]]>>
          ELSE <<>>)
         \o stat_coverage(b, chrom, start + 1, end)

\* df['mid'] = Chromosome + ':' + Start + ':' + End + ':' + Ref + '>' + Alt
PrepMid(row) ==
    row.Chromosome \o <<":">> \o AsTypeStr(row.Start_Position) \o <<":">>
    \o AsTypeStr(row.End_Position) \o <<":">> \o row.Reference_Allele
    \o <<">">> \o row.Tumor_Seq_Allele2

\* load_maf and the mid column find_exclusive_mutations adds to the table
LoadWithMid(fp) ==
    LET rows == load_maf(fp)
        cell(i) == [rows[i] EXCEPT !.Start_Position = IntV(@), !.End_Position = IntV(@)]
    IN [i \in 1..Len(rows) |->
          [Chromosome |-> cell(i).Chromosome,
           Start_Position |-> cell(i).Start_Position,
           End_Position |-> cell(i).End_Position,
           Reference_Allele |-> cell(i).Reference_Allele,
           Tumor_Seq_Allele2 |-> cell(i).Tumor_Seq_Allele2,
           t_ref_count |-> cell(i).t_ref_count,
           t_alt_count |-> cell(i).t_alt_count,
           mid |-> PrepMid(cell(i))]]

\* set(df['mid'].tolist())
MutIds(t) == { t[i].mid : i \in 1..Len(t) }

ExclusiveOfOther(own, other) == other \ own
\* pMutIds - mMutIds, mMutIds - pMutIds
ExclusiveIds(own, other) == own \ other

find_exclusive_mutations(p, m) ==
    <<ExclusiveIds(MutIds(p), MutIds(m)), ExclusiveIds(MutIds(m), MutIds(p))>>

SkipNotCounted(n) == n
\* skipCounter += 1
SkipCount(n) == n + 1

\* the record synthesized for an absent mutation from its coverage
AbsentRecord(mut, info) ==
    LET parts == Split(mut, ":")
        alleles == Split(parts[4], ">")
    IN [Chromosome |-> parts[1],
        Start_Position |-> StrV(parts[2]),
        End_Position |-> StrV(parts[3]),
        Reference_Allele |-> alleles[1],
        Tumor_Seq_Allele2 |-> alleles[2],
        t_ref_count |-> info[1].reads_all,
        t_alt_count |-> 0,
        mid |-> NaN]

\* the coverage query of one absent mutation
QueryCoverage(b, mut) ==
    LET parts == Split(mut, ":")
    IN stat_coverage(b, parts[1], StrToInt(parts[2]), StrToInt(parts[3]) + 1)

ConcatNewFirst(t, new) == new \o t
\* pd.concat([mutdf, newdf], axis = 0, ignore_index = True)
ConcatMaf(t, new) == t \o new

InitPrep ==
    /\ pMafFile \in [comment : MafComments, rows : SeqsUpTo(PrepRows, MaxRows)]
    /\ mMafFile \in [comment : {pMafFile.comment}, rows : SeqsUpTo(PrepRows, MaxRows)]
    /\ pBam \in Bams
    /\ mBam \in Bams
    /\ primaryMaf = <<>>
    /\ metMaf = <<>>
    /\ pSpecific = {}
    /\ mSpecific = {}
    /\ mutdf = <<>>
    /\ absentMuts = {}
    /\ todo = {}
    /\ bam = pBam
    /\ records = <<>>
    /\ skipCounter = 0
    /\ N = 0
    /\ rpc = "load"
    \* the other scripts do not run
    /\ vcf = <<>> /\ fpos = 0 /\ line = <<>> /\ ppc = "done"
    /\ purity = Some(<<"0.65">>) /\ ploidy = Some(<<"2.1">>)
    /\ cnaFile = <<>> /\ mafFile = [comment |-> <<>>, rows |-> <<>>]
    /\ cnas = <<>> /\ cnInfo = <<>> /\ muts = <<>> /\ idx = 0 /\ pos = <<>>
    /\ segment = None /\ output = <<>> /\ numExcludedMuts = 0 /\ mpc = "idle"
    /\ primaryTsv = <<>> /\ metTsv = <<>> /\ pdf = <<>> /\ mdf = <<>>
    /\ df = <<>> /\ outTsv = <<>> /\ cpc = "idle"
    /\ listing = <<>> /\ files = <<>> /\ done = 0 /\ cmds = <<>> /\ epc = "idle"

\* main up to the first loop: load both MAFs, find the exclusive mutations,
\* enter add_absent_mutations(primaryMaf, mSpecific, pBamFp)
RLoad ==
    /\ rpc = "load"
    /\ primaryMaf' = LoadWithMid(pMafFile)
    /\ metMaf' = LoadWithMid(mMafFile)
    /\ pSpecific' = find_exclusive_mutations(primaryMaf', metMaf')[1]
    /\ mSpecific' = find_exclusive_mutations(primaryMaf', metMaf')[2]
    /\ mutdf' = primaryMaf'
    /\ absentMuts' = mSpecific'
    /\ todo' = mSpecific'
    /\ bam' = pBam
    /\ records' = <<>>
    /\ N' = Cardinality(mSpecific')
    /\ skipCounter' = 0
    /\ rpc' = "addP"
    /\ UNCHANGED <<pMafFile, mMafFile, pBam, mBam>>

\* one iteration of "for i, mut in enumerate(absentMuts)"; a set is
\* iterated in an order the program does not choose
RStep ==
    /\ rpc \in {"addP", "addM"}
    /\ \E mut \in todo :
          LET info == QueryCoverage(bam, mut)
          IN /\ todo' = todo \ {mut}
             /\ IF Len(info) = 0
                THEN /\ skipCounter' = SkipCount(skipCounter)
                     /\ UNCHANGED records
                ELSE /\ records' = Append(records, AbsentRecord(mut, info))
                     /\ UNCHANGED skipCounter
    /\ UNCHANGED <<pMafFile, mMafFile, pBam, mBam, primaryMaf, metMaf, pSpecific,
                   mSpecific, mutdf, absentMuts, bam, N, rpc>>

\* the first call returns: primaryMaf is the table it made, and main enters
\* add_absent_mutations(metMaf, pSpecific, mBamFp)
RReturnP ==
    /\ rpc = "addP"
    /\ todo = {}
    /\ primaryMaf' = ConcatMaf(mutdf, records)
    /\ mutdf' = metMaf
    /\ absentMuts' = pSpecific
    /\ todo' = pSpecific
    /\ bam' = mBam
    /\ records' = <<>>
    /\ N' = Cardinality(pSpecific)
    /\ skipCounter' = 0
    /\ rpc' = "addM"
    /\ UNCHANGED <<pMafFile, mMafFile, pBam, mBam, metMaf, pSpecific, mSpecific>>

\* the second call returns and both tables are saved
RReturnM ==
    /\ rpc = "addM"
    /\ todo = {}
    /\ metMaf' = ConcatMaf(mutdf, records)
    /\ rpc' = "done"
    /\ UNCHANGED <<pMafFile, mMafFile, pBam, mBam, primaryMaf, pSpecific, mSpecific,
                   mutdf, absentMuts, todo, bam, records, skipCounter, N>>

----------------------------------------------------------------------------
(* merge_pyclone_inputs.py                                                  *)

TsvHeader == <<"mutation_id", "sample_id">>
TsvRows ==
    { [mutation_id |-> m, sample_id |-> sid] :
      m \in {<<"P1:chr1:9:9A>G">>, <<"P1:chr1:10:10A>G">>},
      sid \in {<<"primary">>, <<"met">>} }

\* pd.read_csv(fp, sep = '\t'): the rows under the header line
read_csv(fp) == Tail(fp)
\* df.to_csv(fp, index = False, sep = '\t'): the header line, then the rows
to_csv(t) == <<TsvHeader>> \o t

ConcatSecondOnly(a, b) == b
\* pd.concat([pdf, mdf], ignore_index = True)
ConcatTsv(a, b) == a \o b

InitCat ==
    /\ primaryTsv \in { to_csv(t) : t \in SeqsUpTo(TsvRows, MaxTsv) }
    /\ metTsv \in { to_csv(t) : t \in SeqsUpTo(TsvRows, MaxTsv) }
    /\ pdf = <<>>
    /\ mdf = <<>>
    /\ df = <<>>
    /\ outTsv = <<>>
    /\ cpc = "read"
    \* the other scripts do not run
    /\ vcf = <<>> /\ fpos = 0 /\ line = <<>> /\ ppc = "done"
    /\ purity = Some(<<"0.65">>) /\ ploidy = Some(<<"2.1">>)
    /\ cnaFile = <<>> /\ mafFile = [comment |-> <<>>, rows |-> <<>>]
    /\ cnas = <<>> /\ cnInfo = <<>> /\ muts = <<>> /\ idx = 0 /\ pos = <<>>
    /\ segment = None /\ output = <<>> /\ numExcludedMuts = 0 /\ mpc = "idle"
    /\ pMafFile = [comment |-> <<>>, rows |-> <<>>]
    /\ mMafFile = [comment |-> <<>>, rows |-> <<>>]
    /\ pBam = <<>> /\ mBam = <<>>
    /\ primaryMaf = <<>> /\ metMaf = <<>> /\ pSpecific = {} /\ mSpecific = {}
    /\ mutdf = <<>> /\ absentMuts = {} /\ todo = {} /\ bam = pBam
    /\ records = <<>> /\ skipCounter = 0 /\ N = 0 /\ rpc = "idle"
    /\ listing = <<>> /\ files = <<>> /\ done = 0 /\ cmds = <<>> /\ epc = "idle"

CRead ==
    /\ cpc = "read"
    /\ pdf' = read_csv(primaryTsv)
    /\ mdf' = read_csv(metTsv)
    /\ cpc' = "concat"
    /\ UNCHANGED <<primaryTsv, metTsv, df, outTsv>>

CConcat ==
    /\ cpc = "concat"
    /\ df' = ConcatTsv(pdf, mdf)
    /\ cpc' = "write"
    /\ UNCHANGED <<primaryTsv, metTsv, pdf, mdf, outTsv>>

CWrite ==
    /\ cpc = "write"
    /\ outTsv' = to_csv(df)
    /\ cpc' = "done"
    /\ UNCHANGED <<primaryTsv, metTsv, pdf, mdf, df>>

----------------------------------------------------------------------------
(* eps2tiff.py                                                              *)

indir == <<"in">>
outdir == <<"out">>

\* file names, a token per name part and per '.'
FileNames ==
    { <<"fig", ".", "eps">>,
      <<"fig", ".", "v1", ".", "eps">>,
      <<"fig", ".", "v2", ".", "eps">>,
      <<".", "fig", ".", "eps">>,
      <<"fig", ".", "txt">>,
      <<"figeps">> }

\* f.endswith('.eps')
EndsWithEps(f) == Len(f) >= 2 /\ f[Len(f) - 1] = "." /\ f[Len(f)] = "eps"
\* f.startswith('.')
StartsWithDot(f) == Len(f) >= 1 /\ f[1] = "."

\* [f for f in files if f.endswith('.eps') and not f.startswith('.')]
KeepFile(f) == EndsWithEps(f) /\ ~StartsWithDot(f)

\* os.path.join(dir, name)
PathJoin(dir, name) == dir \o <<"/">> \o name

\* fn = f.split('.')[0]; outfn = f"{fn}.tiff"
OutName(f) == Split(f, ".")[1] \o <<".", "tiff">>

\* ['magick', os.path.join(indir, f), os.path.join(outdir, outfn)]
Command(f) == <<"magick", PathJoin(indir, f), PathJoin(outdir, OutName(f))>>

\* os.listdir: the names of a directory, each once, in any order
Listings ==
    { l \in SeqsUpTo(FileNames, MaxFiles) :
        \A i, j \in 1..Len(l) : i # j => l[i] # l[j] }

InitEps ==
    /\ listing \in Listings
    /\ files = <<>>
    /\ done = 0
    /\ cmds = <<>>
    /\ epc = "list"
    \* the other scripts do not run
    /\ vcf = <<>> /\ fpos = 0 /\ line = <<>> /\ ppc = "done"
    /\ purity = Some(<<"0.65">>) /\ ploidy = Some(<<"2.1">>)
    /\ cnaFile = <<>> /\ mafFile = [comment |-> <<>>, rows |-> <<>>]
    /\ cnas = <<>> /\ cnInfo = <<>> /\ muts = <<>> /\ idx = 0 /\ pos = <<>>
    /\ segment = None /\ output = <<>> /\ numExcludedMuts = 0 /\ mpc = "idle"
    /\ pMafFile = [comment |-> <<>>, rows |-> <<>>]
    /\ mMafFile = [comment |-> <<>>, rows |-> <<>>]
    /\ pBam = <<>> /\ mBam = <<>>
    /\ primaryMaf = <<>> /\ metMaf = <<>> /\ pSpecific = {} /\ mSpecific = {}
    /\ mutdf = <<>> /\ absentMuts = {} /\ todo = {} /\ bam = pBam
    /\ records = <<>> /\ skipCounter = 0 /\ N = 0 /\ rpc = "idle"
    /\ primaryTsv = <<>> /\ metTsv = <<>> /\ pdf = <<>> /\ mdf = <<>>
    /\ df = <<>> /\ outTsv = <<>> /\ cpc = "idle"

\* files = os.listdir(indir), filtered
EList ==
    /\ epc = "list"
    /\ files' = SelectSeq(listing, KeepFile)
    /\ epc' = "loop"
    /\ UNCHANGED <<listing, done, cmds>>

\* one iteration of "for f in files": sb.run(cmd)
ERun ==
    /\ epc = "loop"
    /\ done < Len(files)
    /\ cmds' = Append(cmds, Command(files[done + 1]))
    /\ done' = done + 1
    /\ UNCHANGED <<listing, files, epc>>

\* the loop is over and the script ends
EExit ==
    /\ epc = "loop"
    /\ done = Len(files)
    /\ epc' = "done"
    /\ UNCHANGED <<listing, files, done, cmds>>

----------------------------------------------------------------------------
(* Specifications, one per script                                           *)

NextPP ==
    \/ PPOpen /\ UNCHANGED <<varsMerge, varsPrep, varsCat, varsEps>>
    \/ PPLoop /\ UNCHANGED <<varsMerge, varsPrep, varsCat, varsEps>>
    \/ PPReturn /\ UNCHANGED <<varsMerge, varsPrep, varsCat, varsEps>>

\* get_purity_ploidy on a VCF; a running Python loop keeps running
SpecPurity == InitPP /\ [][NextPP]_vars /\ WF_vars(NextPP)

NextMerge ==
    \/ MLoad /\ UNCHANGED <<varsPP, varsPrep, varsCat, varsEps>>
    \/ MStep /\ UNCHANGED <<varsPP, varsPrep, varsCat, varsEps>>
    \/ MReturn /\ UNCHANGED <<varsPP, varsPrep, varsCat, varsEps>>

\* merge_alterations, called by main with the purity and ploidy found
SpecMerge == InitMerge /\ [][NextMerge]_vars

NextPrep ==
    \/ RLoad /\ UNCHANGED <<varsPP, varsMerge, varsCat, varsEps>>
    \/ RStep /\ UNCHANGED <<varsPP, varsMerge, varsCat, varsEps>>
    \/ RReturnP /\ UNCHANGED <<varsPP, varsMerge, varsCat, varsEps>>
    \/ RReturnM /\ UNCHANGED <<varsPP, varsMerge, varsCat, varsEps>>

\* prep_mutation_files.main
SpecPrep == InitPrep /\ [][NextPrep]_vars

NextCat ==
    \/ CRead /\ UNCHANGED <<varsPP, varsMerge, varsPrep, varsEps>>
    \/ CConcat /\ UNCHANGED <<varsPP, varsMerge, varsPrep, varsEps>>
    \/ CWrite /\ UNCHANGED <<varsPP, varsMerge, varsPrep, varsEps>>

\* merge_pyclone_inputs.main
SpecConcat == InitCat /\ [][NextCat]_vars

NextEps ==
    \/ EList /\ UNCHANGED <<varsPP, varsMerge, varsPrep, varsCat>>
    \/ ERun /\ UNCHANGED <<varsPP, varsMerge, varsPrep, varsCat>>
    \/ EExit /\ UNCHANGED <<varsPP, varsMerge, varsPrep, varsCat>>

\* eps2tiff
SpecEps == InitEps /\ [][NextEps]_vars

\* any one of the scripts
Init == InitPP \/ InitMerge \/ InitPrep \/ InitCat \/ InitEps
Next == NextPP \/ NextMerge \/ NextPrep \/ NextCat \/ NextEps
Spec == Init /\ [][Next]_vars

----------------------------------------------------------------------------
(* Claims about make_pyclone_input.py                                       *)

Min(S) == CHOOSE x \in S : \A y \in S : x <= y
Max(S) == CHOOSE x \in S : \A y \in S : x >= y

\* the rows of the segment table, by number, whose chromosome is that of
\* the MAF row m and whose bounds contain m's interval
Containing(m) ==
    { j \in 1..Len(cnaFile) :
        /\ cnaFile[j].chrom = m.Chromosome
        /\ m.Start_Position >= cnaFile[j].start
        /\ m.End_Position <= cnaFile[j].end }

\* lcn_em as a number, '.' read as 0
LcnValue(raw) == IF raw = <<".">> THEN 0 ELSE StrToInt(raw)

\* the mutation of the iteration just finished
Current == mafFile.rows[idx]
Iterated == mpc \in {"loop", "done"} /\ idx > 0

\* C1: query_cn_segment returns the first row, in table order, of the
\* query's chromosome whose bounds contain the query (start >= segment start
\* and end <= segment end), and None exactly when the chromosome is not in
\* the index or no segment of it contains the query.
C1_FirstContainingSegment ==
    Iterated =>
        LET S == Containing(Current)
        IN IF S = {} THEN segment = None
           ELSE /\ segment # None
                /\ segment[1] = cnaFile[Min(S)].start
                /\ segment[2] = cnaFile[Min(S)].end
                /\ segment[3] = cnaFile[Min(S)].svtype
                /\ segment[5] = LcnValue(cnaFile[Min(S)].lcn_em)

\* two different segments contain the query and one was returned
C1_Witness ==
    /\ Iterated
    /\ segment # None
    /\ \E j \in Containing(Current) :
          j > Min(Containing(Current)) /\ cnaFile[j] # cnaFile[Min(Containing(Current))]

\* C6: every loaded segment has major_cn = tcn_em - lcn_em with a raw
\* lcn_em of '.' read as 0 (so major_cn = tcn_em for a '.' row), and a
\* joined row carries the major and minor of the segment the lookup returned.
C6_MajorCopyNumber ==
    mpc \in {"loop", "done"} =>
        /\ \A c \in ChromsCN :
              LET rowsC == SelectSeq(cnaFile, LAMBDA r : r.chrom = c)
              IN IF rowsC = <<>> THEN c \notin DOMAIN cnInfo
                 ELSE /\ c \in DOMAIN cnInfo
                      /\ Len(cnInfo[c]) = Len(rowsC)
                      /\ \A k \in 1..Len(rowsC) :
                            /\ cnInfo[c][k][4] = rowsC[k].tcn_em - LcnValue(rowsC[k].lcn_em)
                            /\ cnInfo[c][k][5] = LcnValue(rowsC[k].lcn_em)
                            /\ rowsC[k].lcn_em = <<".">> => cnInfo[c][k][4] = rowsC[k].tcn_em
        /\ (idx > 0 /\ segment # None) =>
              /\ Len(output) > 0
              /\ output[Len(output)][5] = segment[4]
              /\ output[Len(output)][6] = segment[5]
              /\ \E k \in 1..Len(cnInfo[Current.Chromosome]) :
                    cnInfo[Current.Chromosome][k] = segment

\* a joined row was made from a segment whose raw lcn_em was '.'
C6_Witness ==
    /\ Iterated
    /\ segment # None
    /\ cnaFile[Min(Containing(Current))].lcn_em = <<".">>
    /\ output[Len(output)][5] = 2

\* the mutations among the first n that some segment contains
Found(n) == { i \in 1..n : Containing(mafFile.rows[i]) # {} }
\* the k-th of them
KthFound(n, k) == CHOOSE i \in Found(n) : Cardinality({j \in Found(n) : j <= i}) = k

\* C10: after every iteration, emitted rows + numExcludedMuts = mutations
\* processed; a mutation with a containing segment gives exactly one row, any
\* other gives none and is counted; the loop is left only when every mutation
\* has been processed (no abort); emitted rows keep the order of their
\* mutations.
C10_SkipAndCount ==
    /\ mpc \in {"loop", "done"} =>
          /\ Len(output) + numExcludedMuts = idx
          /\ Len(output) = Cardinality(Found(idx))
          /\ numExcludedMuts = idx - Cardinality(Found(idx))
          /\ \A k \in 1..Len(output) :
                /\ output[k][1] = muts[KthFound(idx, k)].mid
                /\ output[k][3] = mafFile.rows[KthFound(idx, k)].t_ref_count
    /\ mpc = "done" => idx = Len(mafFile.rows)

\* a finished batch with a joined mutation after an excluded one
C10_Witness ==
    /\ mpc = "done"
    /\ Len(output) >= 1
    /\ numExcludedMuts >= 1
    /\ 1 \notin Found(idx)

\* a line tagged ##purity, ##ploidy
IsPurityLine(l) == Len(l) >= 2 /\ l[1] = "##purity" /\ l[2] = "="
IsPloidyLine(l) == Len(l) >= 2 /\ l[1] = "##ploidy" /\ l[2] = "="
PurityLines == { i \in 1..Len(vcf) : IsPurityLine(vcf[i]) }
PloidyLines == { i \in 1..Len(vcf) : IsPloidyLine(vcf[i]) }
HasBothTags == PurityLines # {} /\ PloidyLines # {}
\* the line at which both tags have been seen
StopLine == Max({Min(PurityLines), Min(PloidyLines)})
\* the text after the tag, without the line end
TagValue(l) == SubSeq(l, 3, Len(l) - 1)

\* C8: get_purity_ploidy returns if and only if the file has a ##purity
\* line and a ##ploidy line; it then stops as soon as both have been seen
\* and returns the texts after '##purity=' and '##ploidy='; with a tag
\* missing it never returns.
C8_TerminatesIffBothTags ==
    /\ [](ppc = "done" =>
            /\ HasBothTags
            /\ fpos = Min({StopLine + 1, Len(vcf)})
            /\ purity = Some(TagValue(vcf[Max({i \in PurityLines : i <= StopLine})]))
            /\ ploidy = Some(TagValue(vcf[Max({i \in PloidyLines : i <= StopLine})])))
    /\ (HasBothTags ~> (ppc = "done"))
    /\ (~HasBothTags => [](ppc # "done"))

\* the scan returned 0.65 and 2.1 before reaching the end of the file
C8_Witness ==
    /\ ppc = "done"
    /\ purity = Some(<<"0.65">>)
    /\ ploidy = Some(<<"2.1">>)
    /\ StopLine + 1 < Len(vcf)

----------------------------------------------------------------------------
(* Claims about prep_mutation_files.py                                      *)

\* the identity of a mutation: chromosome, start, end, ref, alt
FileKey(r) ==
    <<r.Chromosome, r.Start_Position, r.End_Position, r.Reference_Allele,
      r.Tumor_Seq_Allele2>>
KeysOfFile(f) == { FileKey(f.rows[i]) : i \in 1..Len(f.rows) }

CellInt(v) == IF v[1] = "int" THEN v[2] ELSE StrToInt(v[2])
RowKey(row) ==
    <<row.Chromosome, CellInt(row.Start_Position), CellInt(row.End_Position),
      row.Reference_Allele, row.Tumor_Seq_Allele2>>
KeysOfTable(t) == { RowKey(t[i]) : i \in 1..Len(t) }

KeysA == KeysOfFile(pMafFile)
KeysB == KeysOfFile(mMafFile)

\* the depth query of mutation k on alignment file b returns a record
Covered(b, k) == \E q \in k[2]..k[3] : b[q] > 0

\* the mutations absent from the sample add_absent_mutations is working on
Private == IF rpc = "addP" THEN KeysB \ KeysA ELSE KeysA \ KeysB
\* the loop of add_absent_mutations is over
LoopOver == rpc \in {"addP", "addM", "done"} /\ todo = {}

\* C2 as claimed: every identity key of A or B is a row of both outputs.
C2_EveryKeyInBoth ==
    rpc = "done" =>
        \A k \in KeysA \cup KeysB :
            k \in KeysOfTable(primaryMaf) /\ k \in KeysOfTable(metMaf)

\* C2, amended: every identity key of A or B is a row of both outputs,
\* except that a key private to one sample is left out of the other
\* sample's output exactly when that sample's depth query returns no
\* coverage record for it.
C2_EveryCoveredKeyInBoth ==
    rpc = "done" =>
        \A k \in KeysA \cup KeysB :
            /\ k \in KeysOfTable(primaryMaf) <=> (k \in KeysA \/ Covered(pBam, k))
            /\ k \in KeysOfTable(metMaf) <=> (k \in KeysB \/ Covered(mBam, k))

\* a primary-only mutation was added to the metastatic table and another
\* one was left out for lack of coverage
C2_Witness ==
    /\ rpc = "done"
    /\ \E k \in KeysA \ KeysB : Covered(mBam, k) /\ k \in KeysOfTable(metMaf)
    /\ \E k \in KeysA \ KeysB : ~Covered(mBam, k) /\ k \notin KeysOfTable(metMaf)

\* C3 as claimed: for every absent mutation whose depth query returns a
\* record, exactly one row is synthesized; it has the chromosome, start, end,
\* ref and alt cut out of the key, t_alt_count 0 and t_ref_count the read
\* depth reported for the mutation's start position.
C3_RefCountIsDepthAtStart ==
    LoopOver =>
        \A k \in Private :
            Covered(bam, k) =>
                /\ Cardinality({ i \in 1..Len(records) : RowKey(records[i]) = k }) = 1
                /\ \A i \in 1..Len(records) :
                      RowKey(records[i]) = k =>
                          /\ records[i].Start_Position = StrV(IntToStr(k[2]))
                          /\ records[i].End_Position = StrV(IntToStr(k[3]))
                          /\ records[i].t_alt_count = 0
                          /\ records[i].t_ref_count = bam[k[2]]

\* C4: an absent mutation whose depth query returns nothing gets no row and
\* adds one to skipCounter, and the loop goes on: rows + skips + mutations
\* still to do = N throughout, and rows + skips = N = the number of absent
\* mutations when the loop is over.
C4_SkipAndContinue ==
    rpc \in {"addP", "addM", "done"} =>
        /\ Len(records) + skipCounter + Cardinality(todo) = N
        /\ N = Cardinality(Private)
        /\ todo = {} =>
              /\ Len(records) + skipCounter = N
              /\ skipCounter = Cardinality({ k \in Private : ~Covered(bam, k) })
              /\ \A k \in Private :
                    ~Covered(bam, k) => k \notin KeysOfTable(records)

\* a finished loop that skipped one mutation and synthesized another
C4_Witness ==
    /\ LoopOver
    /\ skipCounter >= 1
    /\ Len(records) >= 1

\* the table row tr is the file row fr, as loaded
SameRow(tr, fr) ==
    /\ RowKey(tr) = FileKey(fr)
    /\ tr.Start_Position = IntV(fr.Start_Position)
    /\ tr.End_Position = IntV(fr.End_Position)
    /\ tr.t_ref_count = fr.t_ref_count
    /\ tr.t_alt_count = fr.t_alt_count
    /\ tr.mid # NaN

\* table t is the rows of file f, in order, then synthesized rows only
ExtendsFile(t, f) ==
    /\ Len(t) >= Len(f.rows)
    /\ \A i \in 1..Len(f.rows) : SameRow(t[i], f.rows[i])
    /\ \A i \in (Len(f.rows) + 1)..Len(t) : t[i].mid = NaN /\ t[i].t_alt_count = 0

\* C5: the table add_absent_mutations returns starts with the rows of its
\* input, unchanged and in order, and every synthesized row comes after them.
C5_NonDestructive ==
    /\ rpc \in {"addM", "done"} => ExtendsFile(primaryMaf, pMafFile)
    /\ rpc = "done" =>
          /\ ExtendsFile(metMaf, mMafFile)
          /\ SubSeq(metMaf, 1, Len(mutdf)) = mutdf
          /\ SubSeq(metMaf, Len(mutdf) + 1, Len(metMaf)) = records

\* a non-empty table came back with a synthesized row behind its own rows
C5_Witness ==
    /\ rpc = "done"
    /\ Len(mutdf) >= 1
    /\ Len(records) >= 1
    /\ Len(primaryMaf) > Len(pMafFile.rows)

----------------------------------------------------------------------------
(* Claims about merge_pyclone_inputs.py                                     *)

\* the rows of a TSV file
RowsOf(f) == SubSeq(f, 2, Len(f))
SampleIds(t) == { t[i].sample_id : i \in 1..Len(t) }
\* the rows of t whose sample_id is one of ids
FilterBySample(t, ids) == SelectSeq(t, LAMBDA r : r.sample_id \in ids)

RoundTrip ==
    /\ FilterBySample(RowsOf(outTsv), SampleIds(RowsOf(primaryTsv))) = RowsOf(primaryTsv)
    /\ FilterBySample(RowsOf(outTsv), SampleIds(RowsOf(metTsv))) = RowsOf(metTsv)

\* C7 as claimed: for any two tables, filtering the concatenation by each
\* table's sample_id gives that table back, same rows, same order.
C7_RoundTripAnyTables == cpc = "done" => RoundTrip

\* C7, amended: for any two tables that share no sample_id value, filtering
\* the concatenation by each table's sample_id gives that table back, same
\* rows, same order.
C7_RoundTripDisjointSamples ==
    (cpc = "done" /\ SampleIds(RowsOf(primaryTsv)) \cap SampleIds(RowsOf(metTsv)) = {})
        => RoundTrip

\* two non-empty tables of different samples were concatenated
C7_Witness ==
    /\ cpc = "done"
    /\ Len(RowsOf(primaryTsv)) = 2
    /\ Len(RowsOf(metTsv)) >= 1
    /\ SampleIds(RowsOf(primaryTsv)) \cap SampleIds(RowsOf(metTsv)) = {}

----------------------------------------------------------------------------
(* Claims about eps2tiff.py                                                 *)

IsEpsName(f) == Len(f) >= 2 /\ SubSeq(f, Len(f) - 1, Len(f)) = <<".", "eps">>
\* the name with only its extension replaced by tiff
TiffName(f) == SubSeq(f, 1, Len(f) - 1) \o <<"tiff">>
InPath(f) == indir \o <<"/">> \o f
OutPath(f) == outdir \o <<"/">> \o f

\* the files of the directory that the script does not leave out as hidden
Visible(f) == f[1] # "."

\* C9 as claimed, for the files whose names do not start with '.': the
\* converter is invoked exactly once for every file of the input directory
\* whose name ends with '.eps', writing to the output directory under the
\* same name with only the extension replaced by '.tiff', so that different
\* inputs are written to different outputs.
C9_OncePerEpsSameName ==
    epc = "done" =>
        /\ \A i \in 1..Len(listing) :
              (IsEpsName(listing[i]) /\ Visible(listing[i])) =>
                  /\ Cardinality({ j \in 1..Len(cmds) : cmds[j][2] = InPath(listing[i]) }) = 1
                  /\ \A j \in 1..Len(cmds) :
                        cmds[j][2] = InPath(listing[i])
                            => cmds[j][3] = OutPath(TiffName(listing[i]))
        /\ \A j, k \in 1..Len(cmds) : j # k => cmds[j][3] # cmds[k][3]

============
